---- MODULE Spec2Model ----
(***************************************************************************)
(* Model of Tentacle's hunk / patch engine (tentacle/git_status_sidebar.py) *)
(*                                                                         *)
(* Strings are sequences of one-character strings, so that prefixes,       *)
(* newlines and decimal numbers are computed the way the Python code       *)
(* computes them.  A file's content is a sequence of lines; every file     *)
(* ends with a newline.                                                    *)
(***************************************************************************)
EXTENDS Integers, Sequences, FiniteSets, TLC

VARIABLES head, index, worktree, tmp_files, branch, viewer, last

vars == <<head, index, worktree, tmp_files, branch, viewer, last>>

(***************************************************************************)
(* Python string primitives                                                *)
(***************************************************************************)
NL == "\n"
BS == "\\"

Digits == <<"0", "1", "2", "3", "4", "5", "6", "7", "8", "9">>

IsDigit(c) == \E i \in 1..10 : Digits[i] = c

DigitVal(c) == (CHOOSE i \in 1..10 : Digits[i] = c) - 1

\* str(n) for a non-negative int
RECURSIVE str(_)
str(n) == IF n < 10 THEN <<Digits[n + 1]>> ELSE str(n \div 10) \o <<Digits[(n % 10) + 1]>>

\* int(s) for a non-empty string of decimal digits
RECURSIVE int(_)
int(s) ==
  IF Len(s) = 1 THEN DigitVal(s[1])
  ELSE 10 * int(SubSeq(s, 1, Len(s) - 1)) + DigitVal(s[Len(s)])

startswith(s, prefix) ==
  /\ Len(prefix) <= Len(s)
  /\ SubSeq(s, 1, Len(prefix)) = prefix

endswith(s, suffix) ==
  /\ Len(suffix) <= Len(s)
  /\ SubSeq(s, Len(s) - Len(suffix) + 1, Len(s)) = suffix

\* '\n'.join(lines)
RECURSIVE join(_)
join(lines) ==
  IF Len(lines) = 0 THEN <<>>
  ELSE IF Len(lines) = 1 THEN lines[1]
  ELSE lines[1] \o <<NL>> \o join(Tail(lines))

\* position of the first newline of s at or after p, or Len(s) + 1
RECURSIVE FindNL(_, _)
FindNL(s, p) ==
  IF p > Len(s) THEN Len(s) + 1
  ELSE IF s[p] = NL THEN p
  ELSE FindNL(s, p + 1)

\* text.splitlines(): no empty last element after a final newline
RECURSIVE splitlines(_)
splitlines(text) ==
  IF Len(text) = 0 THEN <<>>
  ELSE LET q == FindNL(text, 1)
       IN  <<SubSeq(text, 1, q - 1)>> \o splitlines(SubSeq(text, q + 1, Len(text)))

(***************************************************************************)
(* Hunk (dataclass) and the patch synthesizer                              *)
(***************************************************************************)
Hunk(header, lines) ==
  [header |-> IF endswith(header, <<NL>>) THEN SubSeq(header, 1, Len(header) - 1) ELSE header,
   lines  |-> lines]

\* p advanced over the literal lit, 0 when there is no match (0 propagates)
ReLit(s, p, lit) ==
  IF p # 0 /\ p + Len(lit) - 1 <= Len(s) /\ SubSeq(s, p, p + Len(lit) - 1) = lit
  THEN p + Len(lit) ELSE 0

\* first position at or after p whose character is not ch
RECURSIVE ReRunEnd(_, _, _)
ReRunEnd(s, p, ch) ==
  IF p <= Len(s) /\ s[p] = ch THEN ReRunEnd(s, p + 1, ch) ELSE p

\* the group (\\d+) of the raw pattern: one backslash, then one or more 'd'
ReBackslashDs(s, p) ==
  IF p # 0 /\ p + 1 <= Len(s) /\ s[p] = BS /\ s[p + 1] = "d"
  THEN ReRunEnd(s, p + 1, "d") ELSE 0

\* \\+(\\d+): one or more backslashes, then the group; the greedy run of
\* backslashes gives its last one back to the group
ReBackslashesThenGroup(s, p) ==
  IF p = 0 THEN 0
  ELSE LET r == ReRunEnd(s, p, BS)
       IN  IF r - p >= 2 THEN ReBackslashDs(s, r - 1) ELSE 0

\* re.match(r'@@ -(\\d+),(\\d+) \\+(\\d+),(\\d+) @@', header) is not None
ReverseHeaderMatches(header) ==
  LET p1 == ReLit(header, 1, <<"@", "@", " ", "-">>)
      p2 == ReBackslashDs(header, p1)
      p3 == ReLit(header, p2, <<",">>)
      p4 == ReBackslashDs(header, p3)
      p5 == ReLit(header, p4, <<" ">>)
      p6 == ReBackslashesThenGroup(header, p5)
      p7 == ReLit(header, p6, <<",">>)
      p8 == ReBackslashDs(header, p7)
      p9 == ReLit(header, p8, <<" ", "@", "@">>)
  IN  p9 # 0

\* Every group of a match starts with a backslash, so map(int, groups)
\* raises ValueError; without a match the header is returned as it is.
_reverse_hunk_header(header) ==
  IF ReverseHeaderMatches(header)
  THEN [raised |-> TRUE, value |-> <<>>]
  ELSE [raised |-> FALSE, value |-> header]

\* a reversal that looks for '+' anywhere in the line
ReverseLine_search(line) ==
  IF \E k \in 1..Len(line) : line[k] = "+" THEN <<"-">> \o Tail(line)
  ELSE IF \E k \in 1..Len(line) : line[k] = "-" THEN <<"+">> \o Tail(line)
  ELSE line

ReverseLine(line) ==
  IF startswith(line, <<"+">>) THEN <<"-">> \o Tail(line)
  ELSE IF startswith(line, <<"-">>) THEN <<"+">> \o Tail(line)
  ELSE line

ReverseLines(lines) == [i \in 1..Len(lines) |-> ReverseLine(lines[i])]

\* a forward patch without the newline after the last line
_create_patch_from_hunk_unterminated(hunk, reverse) ==
  IF reverse
  THEN LET h == _reverse_hunk_header(hunk.header)
       IN  IF h.raised THEN [raised |-> TRUE, value |-> <<>>]
           ELSE [raised |-> FALSE,
                 value  |-> join(<<h.value>> \o ReverseLines(hunk.lines)) \o <<NL>>]
  ELSE [raised |-> FALSE, value |-> join(<<hunk.header>> \o hunk.lines)]

_create_patch_from_hunk(hunk, reverse) ==
  IF reverse
  THEN LET h == _reverse_hunk_header(hunk.header)
       IN  IF h.raised THEN [raised |-> TRUE, value |-> <<>>]
           ELSE [raised |-> FALSE,
                 value  |-> join(<<h.value>> \o ReverseLines(hunk.lines)) \o <<NL>>]
  ELSE [raised |-> FALSE, value |-> join(<<hunk.header>> \o hunk.lines) \o <<NL>>]

(***************************************************************************)
(* The version-control backend: `git diff` (unified diff text of one path) *)
(***************************************************************************)
ContextLines == 3

\* a range of a hunk header: git leaves the count out when it is 1, and
\* names the line before an empty range
FormatRange(start, count) ==
  IF count = 1 THEN str(start)
  ELSE str(IF count = 0 THEN start - 1 ELSE start) \o <<",">> \o str(count)

FormatHeader(a, b, c, d) ==
  <<"@", "@", " ", "-">> \o FormatRange(a, b) \o <<" ", "+">> \o FormatRange(c, d)
    \o <<" ", "@", "@">>

Min(x, y) == IF x <= y THEN x ELSE y
Max(x, y) == IF x >= y THEN x ELSE y

\* The next point at which old and new agree again (or both end), nearest
\* first: <<di, dj>> lines of old and new are skipped, di + dj = k as small
\* as possible and then di as small as possible.
RECURSIVE DiffSync(_, _, _, _, _)
DiffSync(old, new, i, j, k) ==
  LET S == {di \in 0..k :
              \/ i + di = Len(old) + 1 /\ j + (k - di) = Len(new) + 1
              \/ /\ i + di <= Len(old)
                 /\ j + (k - di) <= Len(new)
                 /\ old[i + di] = new[j + (k - di)]}
  IN  IF S = {} THEN DiffSync(old, new, i, j, k + 1)
      ELSE LET di == CHOOSE d \in S : \A e \in S : d <= e
           IN  <<di, k - di>>

\* The edit script: changed regions old[a1..a2-1] -> new[b1..b2-1], ascending
RECURSIVE DiffChanges(_, _, _, _)
DiffChanges(old, new, i, j) ==
  IF i > Len(old) /\ j > Len(new) THEN <<>>
  ELSE IF i <= Len(old) /\ j <= Len(new) /\ old[i] = new[j]
       THEN DiffChanges(old, new, i + 1, j + 1)
       ELSE LET Synced(s) ==
                  <<[a1 |-> i, a2 |-> i + s[1], b1 |-> j, b2 |-> j + s[2]]>>
                    \o DiffChanges(old, new, i + s[1], j + s[2])
            IN  Synced(DiffSync(old, new, i, j, 1))

\* Changes whose contexts touch or overlap share a hunk: groups of changes
RECURSIVE DiffGroups(_, _)
DiffGroups(changes, groups) ==
  IF Len(changes) = 0 THEN groups
  ELSE LET c == Head(changes)
           g == Len(groups)
       IN  IF g > 0 /\ c.a1 - groups[g][Len(groups[g])].a2 <= 2 * ContextLines
           THEN DiffGroups(Tail(changes), [groups EXCEPT ![g] = Append(@, c)])
           ELSE DiffGroups(Tail(changes), Append(groups, <<c>>))

Prefixed(ch, lines, from, to) == [k \in 1..(to - from + 1) |-> <<ch>> \o lines[from + k - 1]]

\* body of a hunk: context up to each change, its '-' and '+' lines, and the
\* trailing context up to oend (exclusive)
RECURSIVE DiffBody(_, _, _, _, _)
DiffBody(old, new, group, pos, oend) ==
  IF Len(group) = 0 THEN Prefixed(" ", old, pos, oend - 1)
  ELSE LET c == Head(group)
       IN  Prefixed(" ", old, pos, c.a1 - 1)
             \o Prefixed("-", old, c.a1, c.a2 - 1)
             \o Prefixed("+", new, c.b1, c.b2 - 1)
             \o DiffBody(old, new, Tail(group), c.a2, oend)

\* one hunk of the diff, as the structure git prints
DiffHunk(old, new, group) ==
  LET first  == group[1]
      lst    == group[Len(group)]
      ostart == Max(1, first.a1 - ContextLines)
      oend   == Min(Len(old) + 1, lst.a2 + ContextLines)
      nstart == Max(1, first.b1 - ContextLines)
      nend   == Min(Len(new) + 1, lst.b2 + ContextLines)
  IN  [a |-> ostart, b |-> oend - ostart, c |-> nstart, d |-> nend - nstart,
       header |-> FormatHeader(ostart, oend - ostart, nstart, nend - nstart),
       lines  |-> DiffBody(old, new, group, ostart, oend)]

DiffHunks(old, new) ==
  LET Grouped(groups) == [g \in 1..Len(groups) |-> DiffHunk(old, new, groups[g])]
  IN  Grouped(DiffGroups(DiffChanges(old, new, 1, 1), <<>>))

RECURSIVE Flatten(_)
Flatten(seqs) == IF Len(seqs) = 0 THEN <<>> ELSE Head(seqs) \o Flatten(Tail(seqs))

\* the lines git prints before the first hunk of a path
DiffFileHeader ==
  << <<"d", "i", "f", "f">>, <<"i", "n", "d", "e", "x">>, <<"-", "-", "-">>, <<"+", "+", "+">> >>

\* repo.git.diff(...): the text without its last newline, '' without changes
GitDiff(old, new) ==
  LET Printed(hs) ==
        IF Len(hs) = 0 THEN <<>>
        ELSE join(DiffFileHeader
                    \o Flatten([g \in 1..Len(hs) |-> <<hs[g].header>> \o hs[g].lines]))
  IN  Printed(DiffHunks(old, new))

(***************************************************************************)
(* Hunk parser and whitespace filter                                       *)
(***************************************************************************)
\* the loop of _parse_diff_into_hunks over the lines, from the state st
RECURSIVE ParseLoop(_, _)
ParseLoop(lines, st) ==
  IF Len(lines) = 0 THEN st
  ELSE LET line == Head(lines)
       IN  IF startswith(line, <<"@", "@">>)
           THEN ParseLoop(Tail(lines),
                  IF Len(st.header) > 0 /\ Len(st.cur) > 0
                  THEN [hunks |-> Append(st.hunks, Hunk(st.header, st.cur)),
                        header |-> line, cur |-> <<>>]
                  ELSE [st EXCEPT !.header = line])
           ELSE IF Len(st.header) > 0
                THEN ParseLoop(Tail(lines), [st EXCEPT !.cur = Append(@, line)])
                ELSE ParseLoop(Tail(lines), st)

\* a parser without the whole-input hunk for a text without header
_parse_diff_into_hunks_no_fallback(diff) ==
  LET Result(lines, hunks) ==
        IF Len(hunks) = 0 /\ Len(lines) > 0
        THEN <<>>
        ELSE hunks
      Looped(lines, st) ==
        Result(lines, IF Len(st.header) > 0 /\ Len(st.cur) > 0
                      THEN Append(st.hunks, Hunk(st.header, st.cur))
                      ELSE st.hunks)
      Split(lines) ==
        Looped(lines, ParseLoop(lines, [hunks |-> <<>>, header |-> <<>>, cur |-> <<>>]))
  IN  Split(splitlines(diff))

\* a parser that returns the whole-input hunk whenever it found no hunk
_parse_diff_into_hunks_always_fallback(diff) ==
  LET Result(lines, hunks) ==
        IF Len(hunks) = 0
        THEN <<Hunk(<<>>, lines)>>
        ELSE hunks
      Looped(lines, st) ==
        Result(lines, IF Len(st.header) > 0 /\ Len(st.cur) > 0
                      THEN Append(st.hunks, Hunk(st.header, st.cur))
                      ELSE st.hunks)
      Split(lines) ==
        Looped(lines, ParseLoop(lines, [hunks |-> <<>>, header |-> <<>>, cur |-> <<>>]))
  IN  Split(splitlines(diff))

_parse_diff_into_hunks(diff) ==
  LET Result(lines, hunks) ==
        IF Len(hunks) = 0 /\ Len(lines) > 0
        THEN <<Hunk(<<>>, lines)>>
        ELSE hunks
      Looped(lines, st) ==
        Result(lines, IF Len(st.header) > 0 /\ Len(st.cur) > 0
                      THEN Append(st.hunks, Hunk(st.header, st.cur))
                      ELSE st.hunks)
      Split(lines) ==
        Looped(lines, ParseLoop(lines, [hunks |-> <<>>, header |-> <<>>, cur |-> <<>>]))
  IN  Split(splitlines(diff))

IsSpace(c) == c \in {" ", "\t", "\r", "\n"}

RECURSIVE lstrip(_)
lstrip(s) == IF Len(s) > 0 /\ IsSpace(s[1]) THEN lstrip(Tail(s)) ELSE s

RECURSIVE rstrip(_)
rstrip(s) ==
  IF Len(s) > 0 /\ IsSpace(s[Len(s)]) THEN rstrip(SubSeq(s, 1, Len(s) - 1)) ELSE s

strip(s) == rstrip(lstrip(s))

bullet_types == << <<"-", " ">>, <<"*", " ">>, <<"+", " ">> >>

\* the for loop over bullet_types, from the k-th bullet: the first bullet
\* both lines start with decides
RECURSIVE BulletLoop(_, _, _)
BulletLoop(old_stripped, new_stripped, k) ==
  IF k > Len(bullet_types) THEN FALSE
  ELSE LET bullet == bullet_types[k]
       IN  IF startswith(old_stripped, bullet) /\ startswith(new_stripped, bullet)
           THEN SubSeq(old_stripped, Len(bullet) + 1, Len(old_stripped))
                  = SubSeq(new_stripped, Len(bullet) + 1, Len(new_stripped))
           ELSE BulletLoop(old_stripped, new_stripped, k + 1)

\* a comparison that strips the line ends only
_is_whitespace_only_change_rstrip(old_line, new_line) ==
  LET Stripped(old_stripped, new_stripped) ==
        IF old_stripped = new_stripped THEN TRUE
        ELSE BulletLoop(old_stripped, new_stripped, 1)
  IN  Stripped(rstrip(old_line), rstrip(new_line))

_is_whitespace_only_change(old_line, new_line) ==
  LET Stripped(old_stripped, new_stripped) ==
        IF old_stripped = new_stripped THEN TRUE
        ELSE BulletLoop(old_stripped, new_stripped, 1)
  IN  Stripped(strip(old_line), strip(new_line))

FirstIs(line, ch) == Len(line) > 0 /\ line[1] = ch

\* a loop that loses a '-' line that no '+' line follows
RECURSIVE FilterLines_lone_removal_lost(_, _)
FilterLines_lone_removal_lost(lines, i) ==
  IF i > Len(lines) THEN <<>>
  ELSE LET line == lines[i]
       IN  IF FirstIs(line, "-")
           THEN IF i + 1 <= Len(lines) /\ FirstIs(lines[i + 1], "+")
                THEN IF _is_whitespace_only_change(Tail(line), Tail(lines[i + 1]))
                     THEN FilterLines_lone_removal_lost(lines, i + 2)
                     ELSE <<line, lines[i + 1]>> \o FilterLines_lone_removal_lost(lines, i + 2)
                ELSE FilterLines_lone_removal_lost(lines, i + 1)
           ELSE <<line>> \o FilterLines_lone_removal_lost(lines, i + 1)

\* the while loop of _filter_whitespace_hunks over one hunk's lines, from i
\* (0-based in the code, 1-based here)
RECURSIVE FilterLines(_, _)
FilterLines(lines, i) ==
  IF i > Len(lines) THEN <<>>
  ELSE LET line == lines[i]
       IN  IF FirstIs(line, "-")
           THEN IF i + 1 <= Len(lines) /\ FirstIs(lines[i + 1], "+")
                THEN IF _is_whitespace_only_change(Tail(line), Tail(lines[i + 1]))
                     THEN FilterLines(lines, i + 2)
                     ELSE <<line, lines[i + 1]>> \o FilterLines(lines, i + 2)
                ELSE <<line>> \o FilterLines(lines, i + 1)
           ELSE IF FirstIs(line, "+")
                THEN IF i > 1 /\ FirstIs(lines[i - 1], "-")
                     THEN FilterLines(lines, i + 1)
                     ELSE <<line>> \o FilterLines(lines, i + 1)
                ELSE <<line>> \o FilterLines(lines, i + 1)

\* a filter that puts each filtered hunk in front of the ones before it
_filter_whitespace_hunks_prepend(hunks) ==
  [h \in 1..Len(hunks) |->
     Hunk(hunks[Len(hunks) + 1 - h].header, FilterLines(hunks[Len(hunks) + 1 - h].lines, 1))]

_filter_whitespace_hunks(hunks) ==
  [h \in 1..Len(hunks) |-> Hunk(hunks[h].header, FilterLines(hunks[h].lines, 1))]

(***************************************************************************)
(* The version-control backend: `git apply` of a one-hunk patch            *)
(***************************************************************************)
RECURSIVE DigitsEnd(_, _)
DigitsEnd(s, p) == IF p <= Len(s) /\ IsDigit(s[p]) THEN DigitsEnd(s, p + 1) ELSE p

\* start[,count] at p; the count is 1 when it is left out
GitParseRange(s, p) ==
  LET Count(e, start, e2) ==
        [next |-> e2, start |-> start, count |-> int(SubSeq(s, e + 1, e2 - 1))]
      Start(e) ==
        IF e + 1 <= Len(s) /\ s[e] = "," /\ IsDigit(s[e + 1])
        THEN Count(e, int(SubSeq(s, p, e - 1)), DigitsEnd(s, e + 1))
        ELSE [next |-> e, start |-> int(SubSeq(s, p, e - 1)), count |-> 1]
  IN  IF p = 0 \/ p > Len(s) \/ ~IsDigit(s[p]) THEN [next |-> 0, start |-> 0, count |-> 0]
      ELSE Start(DigitsEnd(s, p))

GitParseHeader(line) ==
  LET Ranges(r1, r2) ==
        [ok |-> ReLit(line, r2.next, <<" ", "@", "@">>) # 0,
         a |-> r1.start, b |-> r1.count, c |-> r2.start, d |-> r2.count]
      OldRange(r1) == Ranges(r1, GitParseRange(line, ReLit(line, r1.next, <<" ", "+">>)))
  IN  OldRange(GitParseRange(line, ReLit(line, 1, <<"@", "@", " ", "-">>)))

\* The body is read until the header's counts are used up: a line the counts
\* leave no room for, or an end of input before that, is a corrupt patch.
RECURSIVE GitReadBody(_, _, _, _, _)
GitReadBody(body, k, oldleft, newleft, acc) ==
  IF oldleft = 0 /\ newleft = 0 THEN [acc EXCEPT !.ok = TRUE]
  ELSE IF k > Len(body) THEN acc
  ELSE LET line == body[k]
       IN  IF Len(line) = 0 \/ FirstIs(line, " ")
           THEN IF oldleft = 0 \/ newleft = 0 THEN acc
                ELSE LET text == IF Len(line) = 0 THEN <<>> ELSE Tail(line)
                     IN  GitReadBody(body, k + 1, oldleft - 1, newleft - 1,
                           [acc EXCEPT !.old = Append(@, text), !.new = Append(@, text),
                                       !.leading = IF acc.changed THEN @ ELSE @ + 1,
                                       !.trailing = @ + 1])
           ELSE IF FirstIs(line, "-")
           THEN IF oldleft = 0 THEN acc
                ELSE GitReadBody(body, k + 1, oldleft - 1, newleft,
                       [acc EXCEPT !.old = Append(@, Tail(line)), !.changed = TRUE,
                                   !.trailing = 0])
           ELSE IF FirstIs(line, "+")
           THEN IF newleft = 0 THEN acc
                ELSE GitReadBody(body, k + 1, oldleft, newleft - 1,
                       [acc EXCEPT !.new = Append(@, Tail(line)), !.changed = TRUE,
                                   !.trailing = 0])
           ELSE acc

Abs(x) == IF x < 0 THEN 0 - x ELSE x

\* The lines at which the old side matches the content; a hunk that starts
\* at line 1 matches only at the beginning, one without trailing context only
\* at the end.  The nearest to the header's new start is taken, a later one
\* before an earlier one.
GitFindPos(content, oldside, hdr, trailing) ==
  LET b    == Len(oldside)
      try  == IF hdr.a <= 1 THEN 1 ELSE Max(1, hdr.c)
      Cand == {p \in 1..(Len(content) + 1 - b) :
                 /\ SubSeq(content, p, p + b - 1) = oldside
                 /\ hdr.a <= 1 => p = 1
                 /\ trailing = 0 => p + b - 1 = Len(content)}
  IN  IF Cand = {} THEN 0
      ELSE CHOOSE p \in Cand :
             \A q \in Cand : \/ Abs(p - try) < Abs(q - try)
                             \/ Abs(p - try) = Abs(q - try) /\ p >= q

\* the patch text applied to the lines of one file; with -R the roles of
\* the two sides are exchanged
GitApplyText(text, content, reverse) ==
  LET fail == [ok |-> FALSE, lines |-> content]
      Splice(p, old, new) ==
        IF p = 0 THEN fail
        ELSE [ok |-> TRUE,
              lines |-> SubSeq(content, 1, p - 1) \o new
                         \o SubSeq(content, p + Len(old), Len(content))]
      Fragment(h0, r0) ==
        IF ~r0.ok THEN fail
        ELSE LET hdr == IF reverse THEN [h0 EXCEPT !.a = h0.c, !.b = h0.d,
                                                   !.c = h0.a, !.d = h0.b]
                        ELSE h0
                 old == IF reverse THEN r0.new ELSE r0.old
                 new == IF reverse THEN r0.old ELSE r0.new
             IN  Splice(GitFindPos(content, old, hdr, r0.trailing), old, new)
      Header(h0, body) ==
        IF ~h0.ok THEN fail
        ELSE Fragment(h0, GitReadBody(body, 1, h0.b, h0.d,
                            [ok |-> FALSE, old |-> <<>>, new |-> <<>>,
                             leading |-> 0, trailing |-> 0, changed |-> FALSE]))
      Lines(lines) ==
        IF Len(lines) = 0 THEN fail
        ELSE Header(GitParseHeader(lines[1]), Tail(lines))
  IN  Lines(splitlines(text))

(***************************************************************************)
(* The repository: HEAD, index and working tree of two paths               *)
(***************************************************************************)
PyPath == <<"a">>
MdPath == <<"n", ".", "m", "d">>
Files == {PyPath, MdPath}

Absent == [present |-> FALSE, lines |-> <<>>]
File(lines) == [present |-> TRUE, lines |-> lines]

\* the committed content of a tracked path, and the edits a user makes to
\* its first and last lines (far enough apart for two hunks)
TopBase == << <<"a">>, <<"b">> >>
Middle == << <<"c">>, <<"d">>, <<"e">>, <<"f">>, <<"g">>, <<"h">>, <<"i">> >>
BottomBase == << <<"j">>, <<"k">> >>
Base == TopBase \o Middle \o BottomBase

TopEdits ==
  { TopBase,
    << <<" ", "a">>, <<"b">> >>,
    << <<"a">>, <<"-", "x">>, <<"b">> >> }

BottomEdits ==
  { BottomBase,
    << <<"j">>, <<"y">> >> }

Contents == {t \o Middle \o b : t \in TopEdits, b \in BottomEdits}

UntrackedContent == << <<"u">>, <<"-", "v">> >>

\* the text of a file: every line ends with a newline
RECURSIVE FileText(_)
FileText(lines) ==
  IF Len(lines) = 0 THEN <<>> ELSE Head(lines) \o <<NL>> \o FileText(Tail(lines))

\* the three stores of the repository, as one value
Repo == [head |-> head, index |-> index, worktree |-> worktree]

\* `git diff [--cached] -- path` in the stores r: nothing for a path the
\* index does not hold
GitDiffIn(r, file_path, staged) ==
  LET old == IF staged THEN r.head[file_path] ELSE r.index[file_path]
      new == IF staged THEN r.index[file_path] ELSE r.worktree[file_path]
  IN  IF old.present /\ new.present THEN GitDiff(old.lines, new.lines) ELSE <<>>

GitDiffPath(file_path, staged) == GitDiffIn(Repo, file_path, staged)

\* get_file_status read from the stores r
FileStatusIn(r, file_path) ==
  IF r.index[file_path] # r.head[file_path] THEN "staged"
  ELSE IF r.index[file_path].present /\ r.worktree[file_path] # r.index[file_path]
  THEN "modified"
  ELSE IF ~r.index[file_path].present /\ r.worktree[file_path].present THEN "untracked"
  ELSE "unchanged"

get_file_status(file_path) == FileStatusIn(Repo, file_path)

\* get_file_statuses(): a dict, written in the order staged, modified,
\* untracked, so that a later status replaces an earlier one
get_file_statuses ==
  LET Staged(p) == index[p] # head[p]
      Modified(p) == index[p].present /\ worktree[p] # index[p]
      Untracked(p) == ~index[p].present /\ worktree[p].present
  IN  [p \in {q \in Files : Staged(q) \/ Modified(q) \/ Untracked(q)} |->
         IF Untracked(p) THEN "untracked"
         ELSE IF Modified(p) THEN "modified"
         ELSE "staged"]

\* dict.get(key, default)
DictGet(dict, key, default) ==
  IF key \in DOMAIN dict THEN dict[key] ELSE default

\* get_diff_hunks read from the stores r
DiffHunksIn(r, file_path, staged) ==
  LET Untracked(content) ==
        <<Hunk(<<"@", "@", " ", "-", "0", ",", "0", " ", "+", "1", ",">>
                 \o str(Len(content)) \o <<" ", "@", "@">>,
               [k \in 1..Len(content) |-> <<"+">> \o content[k]])>>
      NoDiff(status) ==
        IF staged THEN <<>>
        ELSE IF status = "untracked"
        THEN Untracked(splitlines(FileText(r.worktree[file_path].lines)))
        ELSE IF status = "unchanged"
        THEN <<Hunk(<<>>, splitlines(FileText(r.worktree[file_path].lines)))>>
        ELSE <<>>
      Parsed(hunks) ==
        IF endswith(file_path, <<".", "m", "d">>)
        THEN _filter_whitespace_hunks(hunks)
        ELSE hunks
      Diffed(diff) ==
        IF Len(diff) = 0 THEN NoDiff(FileStatusIn(r, file_path))
        ELSE Parsed(_parse_diff_into_hunks(diff))
  IN  Diffed(GitDiffIn(r, file_path, staged))

get_diff_hunks(file_path, staged) == DiffHunksIn(Repo, file_path, staged)

(***************************************************************************)
(* Patch applicator and the three hunk operations                          *)
(***************************************************************************)
MaxHunkIndex == 1
MaxLeaked == 1

HunkIndexes == (0 - 1)..MaxHunkIndex

\* repo.git.apply(*args): the stores of file_path after the call.  The patch
\* text names no path; the path is the one the hunk was read from.  git_ok
\* is FALSE when git fails for a reason of its own (GitCommandError).
\* --cached patches the index alone, --index the index and the working tree
\* (which must agree), neither of them the working tree alone.
GitApply(text, file_path, cached, reverse, with_index, git_ok) ==
  LET idx  == index[file_path]
      wt   == worktree[file_path]
      fail == [ok |-> FALSE, index |-> idx, worktree |-> wt]
      Applied(r) ==
        IF ~r.ok THEN fail
        ELSE [ok |-> TRUE,
              index    |-> IF cached \/ with_index THEN File(r.lines) ELSE idx,
              worktree |-> IF cached THEN wt ELSE File(r.lines)]
  IN  IF ~git_ok THEN fail
      ELSE IF cached
      THEN IF ~idx.present THEN fail
           ELSE Applied(GitApplyText(text, idx.lines, reverse))
      ELSE IF with_index /\ (~idx.present \/ idx # wt) THEN fail
      ELSE IF ~wt.present THEN fail
           ELSE Applied(GitApplyText(text, wt.lines, reverse))

\* an applicator that reports success whatever git answered
_apply_patch_swallow(patch, file_path, cached, reverse, with_index, write_ok, git_ok) ==
  LET Finished(r) ==
        [result |-> "True",
         apply  |-> IF r.ok THEN "ok" ELSE "failed",
         leaked |-> 0, index |-> r.index, worktree |-> r.worktree]
  IN  IF ~write_ok
      THEN [result |-> "raise", apply |-> "none", leaked |-> 1,
            index |-> index[file_path], worktree |-> worktree[file_path]]
      ELSE Finished(GitApply(patch, file_path, cached, reverse, with_index, git_ok))

\* _apply_patch: the temporary file is created and written before the try
\* block; only the try block's finally clause unlinks it.  write_ok is FALSE
\* when tmp.write (or the close that flushes it) raises, git_ok is FALSE when
\* git fails for a reason of its own.
_apply_patch(patch, file_path, cached, reverse, with_index, write_ok, git_ok) ==
  LET Finished(r) ==
        [result |-> IF r.ok THEN "True" ELSE "False",
         apply  |-> IF r.ok THEN "ok" ELSE "failed",
         leaked |-> 0, index |-> r.index, worktree |-> r.worktree]
  IN  IF ~write_ok
      THEN [result |-> "raise", apply |-> "none", leaked |-> 1,
            index |-> index[file_path], worktree |-> worktree[file_path]]
      ELSE Finished(GitApply(patch, file_path, cached, reverse, with_index, git_ok))

NoHunk == Hunk(<<>>, <<>>)

\* hunks[hunk_index] of a Python list (1-based position), 0 for IndexError
PyIndex(n, hunk_index) ==
  IF hunk_index >= 0 THEN (IF hunk_index < n THEN hunk_index + 1 ELSE 0)
  ELSE (IF n + hunk_index >= 0 THEN n + hunk_index + 1 ELSE 0)

Returned(op, file_path, hunk_index, rev, has_hunk, hunk, result) ==
  /\ last' = [op |-> op, file_path |-> file_path, hunk_index |-> hunk_index,
              reverse |-> rev, has_hunk |-> has_hunk, hunk |-> hunk, patch |-> <<>>,
              apply |-> "none", result |-> result]
  /\ UNCHANGED <<head, index, worktree, tmp_files, branch>>

\* the common shape of stage_hunk, unstage_hunk and discard_hunk
HunkOperation(op, file_path, hunk_index, staged, rev, cached, with_index) ==
  \E hunks \in {get_diff_hunks(file_path, staged)} :
    IF hunk_index >= Len(hunks)
    THEN Returned(op, file_path, hunk_index, rev, FALSE, NoHunk, "False")
    ELSE IF PyIndex(Len(hunks), hunk_index) = 0
    THEN Returned(op, file_path, hunk_index, rev, FALSE, NoHunk, "raise")
    ELSE \E hunk \in {hunks[PyIndex(Len(hunks), hunk_index)]} :
         \E patch \in {_create_patch_from_hunk(hunk, rev)} :
           IF patch.raised
           THEN Returned(op, file_path, hunk_index, rev, TRUE, hunk, "raise")
           ELSE \E write_ok \in BOOLEAN, git_ok \in BOOLEAN :
                /\ write_ok \/ (git_ok /\ tmp_files < MaxLeaked)
                /\ \E r \in {_apply_patch(patch.value, file_path, cached, FALSE,
                                          with_index, write_ok, git_ok)} :
                     /\ last' = [op |-> op, file_path |-> file_path,
                                 hunk_index |-> hunk_index, reverse |-> rev,
                                 has_hunk |-> TRUE,
                                 hunk |-> hunk, patch |-> patch.value,
                                 apply |-> r.apply, result |-> r.result]
                     /\ index' = [index EXCEPT ![file_path] = r.index]
                     /\ worktree' = [worktree EXCEPT ![file_path] = r.worktree]
                     /\ tmp_files' = tmp_files + r.leaked
                     /\ UNCHANGED <<head, branch>>

\* staging that reads the staged hunk set
stage_hunk_from_staged(file_path, hunk_index) ==
  HunkOperation("stage_hunk", file_path, hunk_index, TRUE, FALSE, TRUE, FALSE)

stage_hunk(file_path, hunk_index) ==
  HunkOperation("stage_hunk", file_path, hunk_index, FALSE, FALSE, TRUE, FALSE)

unstage_hunk(file_path, hunk_index) ==
  HunkOperation("unstage_hunk", file_path, hunk_index, TRUE, TRUE, FALSE, TRUE)

\* discarding that reads the staged hunk set
discard_hunk_from_staged(file_path, hunk_index) ==
  HunkOperation("discard_hunk", file_path, hunk_index, TRUE, TRUE, FALSE, FALSE)

discard_hunk(file_path, hunk_index) ==
  HunkOperation("discard_hunk", file_path, hunk_index, FALSE, TRUE, FALSE, FALSE)

StageHunk ==
  /\ \E f \in Files, i \in HunkIndexes : stage_hunk(f, i)
  /\ UNCHANGED viewer

UnstageHunk ==
  /\ \E f \in Files, i \in HunkIndexes : unstage_hunk(f, i)
  /\ UNCHANGED viewer

DiscardHunk ==
  /\ \E f \in Files, i \in HunkIndexes : discard_hunk(f, i)
  /\ UNCHANGED viewer

(***************************************************************************)
(* Branches: is_dirty, switch_branch and the branch list of the modal      *)
(***************************************************************************)
Branches == {"main", "dev"}

\* the ids a selection can carry: the branches and one that is gone by now
BranchNames == Branches \cup {"gone"}

\* what the tracked path holds at the tip of each branch
DevBase == TopBase \o Middle \o << <<"j">>, <<"z">> >>

BranchContent(name) == IF name = "main" THEN Base ELSE DevBase

\* the tree of a branch: the path HEAD tracks, with the branch's content
Tip(name) == [g \in Files |-> IF head[g].present THEN File(BranchContent(name)) ELSE Absent]

\* repo.index.diff("HEAD"): the paths whose index entry differs from HEAD
get_staged_files == {f \in Files : index[f] # head[f]}

\* repo.index.diff(None): the tracked paths whose file differs from the
\* index; an exception of the query is answered with the empty list
get_unstaged_files(unstaged_ok) ==
  IF ~unstaged_ok THEN {}
  ELSE {f \in Files : index[f].present /\ worktree[f] # index[f]}

\* staged_ok is FALSE when get_staged_files raises: is_dirty catches the
\* exception and answers False
is_dirty(staged_ok, unstaged_ok) ==
  IF ~staged_ok THEN FALSE
  ELSE IF get_staged_files # {} THEN TRUE
  ELSE IF get_unstaged_files(unstaged_ok) # {} THEN TRUE
  ELSE FALSE

\* repo.git.checkout(name): a path that differs between the two tips is
\* rewritten, which git refuses when the path has local changes; a path that
\* is the same in both keeps its index entry and its file.
GitCheckout(name, git_ok) ==
  LET fail == [ok |-> FALSE, branch |-> branch, head |-> head, index |-> index,
               worktree |-> worktree]
      Rewritten == {f \in Files : Tip(name)[f] # head[f]}
  IN  IF ~git_ok \/ name \notin Branches THEN fail
      ELSE IF \E f \in Rewritten : index[f] # head[f] \/ worktree[f] # index[f] THEN fail
      ELSE [ok |-> TRUE, branch |-> name, head |-> Tip(name),
            index |-> [f \in Files |-> IF f \in Rewritten THEN Tip(name)[f] ELSE index[f]],
            worktree |-> [f \in Files |->
                            IF f \in Rewritten THEN Tip(name)[f] ELSE worktree[f]]]

\* a switch that does not ask is_dirty
switch_branch_unchecked(branch_name, staged_ok, unstaged_ok, git_ok) ==
  LET Checked(dirty) ==
        LET Done(r) ==
              [dirty |-> dirty, checkout |-> IF r.ok THEN "ok" ELSE "failed",
               result |-> IF r.ok THEN "True" ELSE "False",
               branch |-> r.branch, head |-> r.head, index |-> r.index,
               worktree |-> r.worktree]
        IN  Done(GitCheckout(branch_name, git_ok))
  IN  Checked(is_dirty(staged_ok, unstaged_ok))

\* switch_branch: what it returns and the repository it leaves; dirty is the
\* answer of its is_dirty call, checkout the outcome of the git command
switch_branch(branch_name, staged_ok, unstaged_ok, git_ok) ==
  LET Checked(dirty) ==
        LET Done(r) ==
              [dirty |-> dirty, checkout |-> IF r.ok THEN "ok" ELSE "failed",
               result |-> IF r.ok THEN "True" ELSE "False",
               branch |-> r.branch, head |-> r.head, index |-> r.index,
               worktree |-> r.worktree]
        IN  IF dirty
            THEN [dirty |-> TRUE, checkout |-> "none", result |-> "False",
                  branch |-> branch, head |-> head, index |-> index,
                  worktree |-> worktree]
            ELSE Done(GitCheckout(branch_name, git_ok))
  IN  Checked(is_dirty(staged_ok, unstaged_ok))

SwitchBranch ==
  \E branch_name \in BranchNames, staged_ok \in BOOLEAN, unstaged_ok \in BOOLEAN,
     git_ok \in BOOLEAN :
    \E r \in {switch_branch(branch_name, staged_ok, unstaged_ok, git_ok)} :
      /\ last' = [op |-> "switch_branch", branch_name |-> branch_name,
                   dirty |-> r.dirty, checkout |-> r.checkout, result |-> r.result]
      /\ branch' = r.branch
      /\ head' = r.head
      /\ index' = r.index
      /\ worktree' = r.worktree
      /\ UNCHANGED <<tmp_files, viewer>>

\* BranchSwitchModal.on_option_list_option_selected: the modal asks is_dirty
\* itself and calls switch_branch only when the answer is False; the option
\* of the current branch is disabled
on_option_list_option_selected(branch_name) ==
  \E asked_staged_ok \in BOOLEAN, asked_unstaged_ok \in BOOLEAN :
    IF is_dirty(asked_staged_ok, asked_unstaged_ok)
    THEN /\ last' = [op |-> "option_selected", branch_name |-> branch_name,
                      dirty |-> TRUE, checkout |-> "none", result |-> "none",
                      notify |-> "error"]
         /\ UNCHANGED <<head, index, worktree, tmp_files, branch>>
    ELSE \E staged_ok \in BOOLEAN, unstaged_ok \in BOOLEAN, git_ok \in BOOLEAN :
         \E r \in {switch_branch(branch_name, staged_ok, unstaged_ok, git_ok)} :
           /\ last' = [op |-> "option_selected", branch_name |-> branch_name,
                        dirty |-> r.dirty, checkout |-> r.checkout, result |-> r.result,
                        notify |-> IF r.result = "True" THEN "information" ELSE "error"]
           /\ branch' = r.branch
           /\ head' = r.head
           /\ index' = r.index
           /\ worktree' = r.worktree
           /\ UNCHANGED tmp_files

OptionSelected ==
  /\ \E branch_name \in BranchNames \ {branch} :
       on_option_list_option_selected(branch_name)
  /\ UNCHANGED viewer

\* GitDiffViewer.__init__: no file is selected and none is displayed.  None
\* is the empty sequence, a value x is <<x>>; the file fields hold a path or
\* None, and no path is empty.  buttons is the number of hunk containers
\* the diff panel holds, commit_message the value of the commit input.
None == <<>>
Some(x) == <<x>>
NoViewer ==
  [current_file |-> None, current_is_staged |-> None,
   _current_displayed_file |-> None, _current_displayed_is_staged |-> None,
   buttons |-> 0, commit_message |-> <<>>]

\* no operation has been called yet
NoCall ==
  [op |-> "none", file_path |-> PyPath, hunk_index |-> 0, reverse |-> FALSE,
   has_hunk |-> FALSE, hunk |-> NoHunk, patch |-> <<>>, apply |-> "none",
   result |-> "none"]

\* One path is tracked: committed as Base, with edits staged and edits left
\* in the working tree.  The other path is a new file git does not track.
Init ==
  /\ viewer = NoViewer
  /\ \E f \in Files, ic \in Contents, wc \in Contents :
       /\ head = [g \in Files |-> IF g = f THEN File(Base) ELSE Absent]
       /\ index = [g \in Files |-> IF g = f THEN File(ic) ELSE Absent]
       /\ worktree = [g \in Files |-> IF g = f THEN File(wc) ELSE File(UntrackedContent)]
  /\ tmp_files = 0
  /\ branch = "main"
  /\ last = NoCall

Next == StageHunk \/ UnstageHunk \/ DiscardHunk \/ SwitchBranch \/ OptionSelected

Spec == Init /\ [][Next]_vars

(***************************************************************************)
(* Staging a file hunk by hunk: stage_hunk(file_path, 0) called again and  *)
(* again while the file has unstaged hunks                                 *)
(***************************************************************************)
\* the call recorded in last' met no failure of its environment: the
\* temporary file was written, and git apply failed only on a patch that
\* does not apply
NoEnvironmentFailure(file_path, cached, reverse, with_index) ==
  /\ ~(last'.result = "raise" /\ last'.has_hunk /\ Len(last'.patch) > 0)
  /\ last'.apply = "failed" =>
       ~GitApply(last'.patch, file_path, cached, reverse, with_index, TRUE).ok

StageFirstHunk ==
  /\ \E file_path \in Files :
       /\ index[file_path].present
       /\ Len(GitDiffPath(file_path, FALSE)) > 0
       /\ stage_hunk(file_path, 0)
       /\ NoEnvironmentFailure(file_path, TRUE, FALSE, FALSE)
  /\ UNCHANGED viewer

NextStageAll == StageFirstHunk

SpecStageAll == Init /\ [][NextStageAll]_vars

(***************************************************************************)
(* GitDiffViewer: the identifiers of the hunk buttons                      *)
(***************************************************************************)
\* s.replace(old, new): the occurrences of old from left to right, none of
\* them overlapping another
RECURSIVE replace(_, _, _)
replace(s, old, new) ==
  IF Len(s) < Len(old) THEN s
  ELSE IF SubSeq(s, 1, Len(old)) = old
  THEN new \o replace(SubSeq(s, Len(old) + 1, Len(s)), old, new)
  ELSE <<Head(s)>> \o replace(Tail(s), old, new)

\* position of the first sep of s at or after p, or 0
RECURSIVE Find(_, _, _)
Find(s, sep, p) ==
  IF p > Len(s) THEN 0
  ELSE IF s[p] = sep THEN p
  ELSE Find(s, sep, p + 1)

\* s.split(sep) for a separator of one character
RECURSIVE split(_, _)
split(s, sep) ==
  LET Cut(k) ==
        IF k = 0 THEN <<s>>
        ELSE <<SubSeq(s, 1, k - 1)>> \o split(SubSeq(s, k + 1, Len(s)), sep)
  IN  Cut(Find(s, sep, 1))

\* "-".join(parts)
RECURSIVE join_dash(_)
join_dash(parts) ==
  IF Len(parts) = 0 THEN <<>>
  ELSE IF Len(parts) = 1 THEN parts[1]
  ELSE parts[1] \o <<"-">> \o join_dash(Tail(parts))

SLASH == <<"_", "_", "S", "L", "A", "S", "H", "_", "_">>
SPACE == <<"_", "_", "S", "P", "A", "C", "E", "_", "_">>
DOT == <<"_", "_", "D", "O", "T", "_", "_">>

\* display_file_diff: sanitized_file_path
sanitize_path(file_path) ==
  replace(replace(replace(file_path, <<"/">>, SLASH), <<" ">>, SPACE), <<".">>, DOT)

_reverse_sanitize_path(sanitized_path) ==
  replace(replace(replace(sanitized_path, SLASH, <<"/">>), SPACE, <<" ">>), DOT, <<".">>)

StagePrefix == <<"s", "t", "a", "g", "e", "-", "h", "u", "n", "k", "-">>
UnstagePrefix == <<"u", "n">> \o StagePrefix
DiscardPrefix == <<"d", "i", "s", "c", "a", "r", "d", "-", "h", "u", "n", "k", "-">>

\* the microsecond timestamp of a refresh, as decimal digits
RefreshIds == {<<"1", "7">>, <<"4">>}

\* the id display_file_diff gives the button of hunk i:
\* f"stage-hunk-{i}-{sanitized_file_path}-{refresh_id}"
button_id(prefix, i, file_path, refresh_id) ==
  prefix \o str(i) \o <<"-">> \o sanitize_path(file_path) \o <<"-">> \o refresh_id

NoButtonCall == [op |-> "none", file_path |-> <<>>, hunk_index |-> 0]

\* on_button_pressed: the hunk operation the handler calls for a button id,
\* "raise" when int(parts[2]) raises ValueError
on_button_pressed(id) ==
  LET IsInt(s) == Len(s) > 0 /\ \A k \in 1..Len(s) : IsDigit(s[k])
      Call(op, parts) ==
        IF Len(parts) < 4 THEN NoButtonCall
        ELSE IF ~IsInt(parts[3]) THEN [NoButtonCall EXCEPT !.op = "raise"]
        ELSE [op |-> op,
              file_path |->
                _reverse_sanitize_path(join_dash(SubSeq(parts, 4, Len(parts) - 1))),
              hunk_index |-> int(parts[3])]
  IN  IF startswith(id, StagePrefix) THEN Call("stage_hunk", split(id, "-"))
      ELSE IF startswith(id, UnstagePrefix) THEN Call("unstage_hunk", split(id, "-"))
      ELSE IF startswith(id, DiscardPrefix) THEN Call("discard_hunk", split(id, "-"))
      ELSE NoButtonCall

(***************************************************************************)
(* GitDiffViewer: the selected file, the displayed file and the three      *)
(* hunk actions of the diff panel                                          *)
(***************************************************************************)
\* Python truth of None, Some(TRUE) or Some(FALSE)
Truthy(x) == x = Some(TRUE)

\* the modified paths and the untracked ones
get_files_with_unstaged_changes ==
  {f \in Files : \/ index[f].present /\ worktree[f] # index[f]
                 \/ ~index[f].present /\ worktree[f].present}

\* a display that does not record which view it drew
display_file_diff_view_not_recorded(v, r, file_path, is_staged, force_refresh) ==
  IF /\ ~force_refresh
     /\ v._current_displayed_file = file_path
     /\ v._current_displayed_is_staged = is_staged
  THEN viewer' = v
  ELSE viewer' = [v EXCEPT !.current_is_staged = is_staged,
                           !._current_displayed_file = file_path,
                           !.buttons = Len(DiffHunksIn(r, file_path, Truthy(is_staged)))]

\* display_file_diff on a viewer whose fields are v: the fields after the
\* call.  The hunks are read from the stores r as they are when the panel
\* is drawn, one hunk container with its buttons for each.
display_file_diff(v, r, file_path, is_staged, force_refresh) ==
  IF /\ ~force_refresh
     /\ v._current_displayed_file = file_path
     /\ v._current_displayed_is_staged = is_staged
  THEN viewer' = v
  ELSE viewer' = [v EXCEPT !.current_is_staged = is_staged,
                           !._current_displayed_file = file_path,
                           !._current_displayed_is_staged = is_staged,
                           !.buttons = Len(DiffHunksIn(r, file_path, Truthy(is_staged)))]

\* the common shape of the tree handlers: self.current_file = file_path,
\* then display_file_diff(file_path, is_staged)
ShowNode(tree, file_path, is_staged) ==
  /\ last' = [op |-> "node", tree |-> tree, file_path |-> file_path,
              is_staged |-> is_staged,
              skipped |-> /\ viewer._current_displayed_file = file_path
                          /\ viewer._current_displayed_is_staged = Some(is_staged)]
  /\ UNCHANGED <<head, index, worktree, tmp_files, branch>>
  /\ \E v \in {[viewer EXCEPT !.current_file = file_path]} :
       display_file_diff(v, Repo, file_path, Some(is_staged), FALSE)

\* on_unstaged_tree_node_selected / _highlighted: a node of the tree that
\* populate_unstaged_changes fills
on_unstaged_tree_node_highlighted ==
  \E file_path \in get_files_with_unstaged_changes :
    ShowNode("unstaged", file_path, FALSE)

\* on_staged_tree_node_selected / _highlighted
on_staged_tree_node_highlighted ==
  \E file_path \in get_staged_files : ShowNode("staged", file_path, TRUE)

\* on_tree_node_selected / _highlighted: a node of the file tree, whose
\* status is the one get_file_tree read from get_file_statuses
on_tree_node_highlighted ==
  \E file_path \in Files :
    ShowNode("files", file_path,
             DictGet(get_file_statuses, file_path, "unchanged") = "staged")

\* GitDiffViewer.stage_hunk: the sidebar's stage_hunk, then the refresh of
\* the panel when it answered True; any exception is caught and notified
GitDiffViewer_stage_hunk(file_path, hunk_index) ==
  /\ stage_hunk(file_path, hunk_index)
  /\ \E v \in {viewer}, current_file \in {viewer.current_file},
        r \in {[head |-> head', index |-> index', worktree |-> worktree']} :
       IF last'.result = "True" /\ current_file # None
       THEN IF FileStatusIn(r, current_file) = "modified"
            THEN display_file_diff(v, r, current_file, Some(FALSE), TRUE)
            ELSE \E w \in {[v EXCEPT !.current_is_staged = Some(TRUE)]} :
                   display_file_diff(w, r, current_file, Some(TRUE), TRUE)
       ELSE viewer' = v

GitDiffViewer_unstage_hunk(file_path, hunk_index) ==
  /\ unstage_hunk(file_path, hunk_index)
  /\ \E v \in {viewer}, current_file \in {viewer.current_file},
        r \in {[head |-> head', index |-> index', worktree |-> worktree']} :
       IF last'.result = "True" /\ current_file # None
       THEN \E w \in {[v EXCEPT !.current_is_staged = Some(FALSE)]} :
              display_file_diff(w, r, current_file, Some(FALSE), TRUE)
       ELSE viewer' = v

GitDiffViewer_discard_hunk(file_path, hunk_index) ==
  /\ discard_hunk(file_path, hunk_index)
  /\ \E v \in {viewer}, current_file \in {viewer.current_file},
        r \in {[head |-> head', index |-> index', worktree |-> worktree']} :
       IF last'.result = "True" /\ current_file # None
       THEN display_file_diff(v, r, current_file, v.current_is_staged, TRUE)
       ELSE viewer' = v

\* the buttons of the diff panel: Stage and Discard for each hunk of an
\* unstaged view, Unstage for each hunk of a staged view
Buttons(prefix) ==
  IF viewer._current_displayed_file = None THEN {}
  ELSE IF Truthy(viewer._current_displayed_is_staged) # (prefix = UnstagePrefix) THEN {}
  ELSE {button_id(prefix, i, viewer._current_displayed_file, refresh_id) :
          i \in 0..(viewer.buttons - 1), refresh_id \in {<<"1", "7">>}}

PressStage ==
  \E id \in Buttons(StagePrefix) : \E call \in {on_button_pressed(id)} :
    /\ call.op = "stage_hunk"
    /\ GitDiffViewer_stage_hunk(call.file_path, call.hunk_index)

PressUnstage ==
  \E id \in Buttons(UnstagePrefix) : \E call \in {on_button_pressed(id)} :
    /\ call.op = "unstage_hunk"
    /\ GitDiffViewer_unstage_hunk(call.file_path, call.hunk_index)

PressDiscard ==
  \E id \in Buttons(DiscardPrefix) : \E call \in {on_button_pressed(id)} :
    /\ call.op = "discard_hunk"
    /\ GitDiffViewer_discard_hunk(call.file_path, call.hunk_index)

NextViewer ==
  \/ on_unstaged_tree_node_highlighted
  \/ on_staged_tree_node_highlighted
  \/ on_tree_node_highlighted
  \/ PressStage
  \/ PressUnstage
  \/ PressDiscard

SpecViewer == Init /\ [][NextViewer]_vars

(***************************************************************************)
(* GitDiffViewer.action_commit and the commit-message input                *)
(***************************************************************************)
\* values the user types into the commit input
CommitMessages == {<<>>, <<" ">>, <<"m">>, <<" ", "m", " ">>}

\* commit_staged_changes: repo.index.commit writes the index as the new
\* HEAD commit; commit_ok is FALSE when it raises
commit_staged_changes(message, commit_ok) ==
  IF commit_ok THEN [result |-> "True", head |-> index]
  ELSE [result |-> "False", head |-> head]

\* action_commit without the look at the staged files
action_commit_unchecked(staged_ok, commit_ok) ==
  \E message \in {strip(viewer.commit_message)} :
    IF Len(message) = 0
    THEN /\ last' = [op |-> "action_commit", value |-> viewer.commit_message,
                      commit |-> "none", notify |-> "warning"]
         /\ UNCHANGED <<head, viewer>>
    ELSE \E r \in {commit_staged_changes(message, commit_ok)} :
           /\ last' = [op |-> "action_commit", value |-> viewer.commit_message,
                        commit |-> r.result,
                        notify |-> IF r.result = "True" THEN "information" ELSE "error"]
           /\ head' = r.head
           /\ viewer' = IF r.result = "True"
                        THEN [viewer EXCEPT !.commit_message = <<>>]
                        ELSE viewer

\* action_commit: staged_ok is FALSE when get_staged_files raises, which the
\* handler's except clause turns into an error notification
action_commit(staged_ok, commit_ok) ==
  \E message \in {strip(viewer.commit_message)} :
    IF Len(message) = 0
    THEN /\ last' = [op |-> "action_commit", value |-> viewer.commit_message,
                      commit |-> "none", notify |-> "warning"]
         /\ UNCHANGED <<head, viewer>>
    ELSE IF ~staged_ok
    THEN /\ last' = [op |-> "action_commit", value |-> viewer.commit_message,
                      commit |-> "none", notify |-> "error"]
         /\ UNCHANGED <<head, viewer>>
    ELSE IF get_staged_files = {}
    THEN /\ last' = [op |-> "action_commit", value |-> viewer.commit_message,
                      commit |-> "none", notify |-> "warning"]
         /\ UNCHANGED <<head, viewer>>
    ELSE \E r \in {commit_staged_changes(message, commit_ok)} :
           /\ last' = [op |-> "action_commit", value |-> viewer.commit_message,
                        commit |-> r.result,
                        notify |-> IF r.result = "True" THEN "information" ELSE "error"]
           /\ head' = r.head
           /\ viewer' = IF r.result = "True"
                        THEN [viewer EXCEPT !.commit_message = <<>>]
                        ELSE viewer

\* the "c" key and the commit button
ActionCommit ==
  /\ \E staged_ok \in BOOLEAN, commit_ok \in BOOLEAN : action_commit(staged_ok, commit_ok)
  /\ UNCHANGED <<index, worktree, tmp_files, branch>>

\* the user edits the commit input
EditCommitMessage ==
  /\ \E value \in CommitMessages \ {viewer.commit_message} :
       viewer' = [viewer EXCEPT !.commit_message = value]
  /\ last' = [op |-> "edit"]
  /\ UNCHANGED <<head, index, worktree, tmp_files, branch>>

NextCommit == ActionCommit \/ EditCommitMessage

SpecCommit == Init /\ [][NextCommit]_vars

(***************************************************************************)
(* The button identifiers on their own: paths drawn from a bounded set     *)
(***************************************************************************)
MaxPathParts == 2
MaxButtonIndex == 10

\* pieces a path is made of: letters, the encoded characters, the
\* separator of the identifier and the three encodings themselves
PathParts == {<<"a">>, <<"/">>, <<" ">>, <<".">>, <<"-">>, <<"_">>, SLASH, SPACE, DOT}

InitButton ==
  /\ viewer = NoViewer
  /\ head = [g \in Files |-> Absent]
  /\ index = [g \in Files |-> Absent]
  /\ worktree = [g \in Files |-> Absent]
  /\ tmp_files = 0
  /\ branch = "main"
  /\ \E n \in 1..MaxPathParts :
       \E ps \in [1..n -> PathParts], i \in {0, 1, MaxButtonIndex},
          prefix \in {StagePrefix, UnstagePrefix, DiscardPrefix} :
         last = [op |-> "input", file_path |-> Flatten(ps), hunk_index |-> i,
                 prefix |-> prefix]

\* display_file_diff mounts the button of hunk hunk_index of file_path
MountButton ==
  /\ last.op = "input"
  /\ \E refresh_id \in RefreshIds :
       last' = [op |-> "mounted", file_path |-> last.file_path,
                hunk_index |-> last.hunk_index, prefix |-> last.prefix,
                id |-> button_id(last.prefix, last.hunk_index, last.file_path,
                                 refresh_id)]
  /\ UNCHANGED <<head, index, worktree, tmp_files, branch, viewer>>

\* the button is pressed
PressButton ==
  /\ last.op = "mounted"
  /\ last' = [op |-> "pressed", file_path |-> last.file_path,
              hunk_index |-> last.hunk_index, prefix |-> last.prefix,
              id |-> last.id, call |-> on_button_pressed(last.id)]
  /\ UNCHANGED <<head, index, worktree, tmp_files, branch, viewer>>

NextButton == MountButton \/ PressButton

SpecButton == InitButton /\ [][NextButton]_vars

(***************************************************************************)
(* The patch synthesizer on its own: _create_patch_from_hunk on hunks      *)
(* drawn from bounded sets of headers and body lines                       *)
(***************************************************************************)
MaxBodyLen == 2

HeaderInputs ==
  { <<>>,
    <<"@", "@", " ", "-", "1", "0", ",", "3", " ", "+", "1", "0", ",", "4", " ", "@", "@">>,
    <<"@", "@", " ", "-", "2", ",", "0", " ", "+", "3", ",", "1", "2", " ", "@", "@">>,
    <<"@", "@", " ", "-", "1", " ", "+", "1", ",", "2", " ", "@", "@">>,
    <<"@", "@", " ", "-", BS, "d", ",", BS, "d", " ", BS, BS, "d", ",", BS, "d", " ", "@", "@">> }

LineInputs ==
  { <<>>, <<" ", "c">>, <<"+", "n">>, <<"-", "o">>, <<"+", "-", "x">>, <<"-", "+", " ">>,
    <<"x", "+">> }

BodyInputs == UNION {[1..n -> LineInputs] : n \in 0..MaxBodyLen}

InitPatch ==
  /\ viewer = NoViewer
  /\ head = [g \in Files |-> File(Base)]
  /\ index = head
  /\ worktree = head
  /\ tmp_files = 0
  /\ branch = "main"
  /\ \E header \in HeaderInputs, lines \in BodyInputs, rev \in BOOLEAN :
       last = [NoCall EXCEPT !.op = "input", !.reverse = rev, !.has_hunk = TRUE,
                             !.hunk = Hunk(header, lines)]

CreatePatch ==
  /\ last.op = "input"
  /\ \E patch \in {_create_patch_from_hunk(last.hunk, last.reverse)} :
       last' = [last EXCEPT !.op = "create_patch", !.patch = patch.value,
                            !.result = IF patch.raised THEN "raise" ELSE "returned"]
  /\ UNCHANGED <<head, index, worktree, tmp_files, branch, viewer>>

NextPatch == CreatePatch

SpecPatch == InitPatch /\ [][NextPatch]_vars

(***************************************************************************)
(* Round trip: the forward and then the reverse patch of one hunk are      *)
(* applied, through _apply_patch, to the working-tree copy of PyPath.  The  *)
(* hunk is one of the diff of old and new; the content starts as any C.     *)
(***************************************************************************)
SmallContents ==
  { <<>>, << <<"a">> >>, << <<"a">>, <<"b">> >>, << <<"b">>, <<"a">>, <<"b">> >> }

RoundTripContents == Contents \cup SmallContents

InitRoundTrip ==
  /\ viewer = NoViewer
  /\ \E old \in RoundTripContents, new \in RoundTripContents, C \in RoundTripContents :
       /\ old # new
       /\ head = [g \in Files |-> IF g = PyPath THEN File(C) ELSE Absent]
       /\ index = head
       /\ worktree = [g \in Files |-> IF g = PyPath THEN File(C) ELSE File(UntrackedContent)]
       /\ \E hunks \in {_parse_diff_into_hunks(GitDiff(old, new))} :
            \E k \in 1..Len(hunks) :
              last = [NoCall EXCEPT !.op = "input", !.has_hunk = TRUE, !.hunk = hunks[k]]
  /\ tmp_files = 0
  /\ branch = "main"

ApplyOne(from, to, rev) ==
  /\ last.op = from
  /\ \E patch \in {_create_patch_from_hunk(last.hunk, rev)} :
     \E r \in {_apply_patch(patch.value, PyPath, FALSE, FALSE, FALSE, TRUE, TRUE)} :
       /\ last' = [last EXCEPT !.op = to, !.reverse = rev, !.patch = patch.value,
                               !.apply = r.apply, !.result = r.result]
       /\ worktree' = [worktree EXCEPT ![PyPath] = r.worktree]
  /\ UNCHANGED <<head, index, tmp_files, branch, viewer>>

ApplyForward == ApplyOne("input", "forward", FALSE)

ApplyReverse == last.result = "True" /\ ApplyOne("forward", "reverse", TRUE)

NextRoundTrip == ApplyForward \/ ApplyReverse

SpecRoundTrip == InitRoundTrip /\ [][NextRoundTrip]_vars

(***************************************************************************)
(* The hunk parser on its own: _parse_diff_into_hunks on diff texts of a   *)
(* few lines, and _filter_whitespace_hunks on what it returned             *)
(***************************************************************************)
MaxDiffLines == 3

DiffLineInputs ==
  { <<>>,
    <<"@", "@", " ", "h">>,
    <<"@", "@", " ", "g">>,
    <<" ", "c">>,
    <<"+", "n">>,
    <<"d", "i", "f", "f">>,
    <<"x", "@", "@">> }

InitParse ==
  /\ viewer = NoViewer
  /\ head = [g \in Files |-> File(Base)]
  /\ index = head
  /\ worktree = head
  /\ tmp_files = 0
  /\ branch = "main"
  /\ \E n \in 0..MaxDiffLines :
       \E ls \in [1..n -> DiffLineInputs], last_newline \in BOOLEAN :
         last = [op |-> "input",
                 diff |-> join(ls) \o (IF last_newline THEN <<NL>> ELSE <<>>)]

ParseDiff ==
  /\ last.op = "input"
  /\ last' = [op |-> "parsed", diff |-> last.diff,
               hunks |-> _parse_diff_into_hunks(last.diff)]
  /\ UNCHANGED <<head, index, worktree, tmp_files, branch, viewer>>

FilterParsed ==
  /\ last.op = "parsed"
  /\ last' = [op |-> "filtered", diff |-> last.diff, hunks |-> last.hunks,
               filtered |-> _filter_whitespace_hunks(last.hunks)]
  /\ UNCHANGED <<head, index, worktree, tmp_files, branch, viewer>>

NextParse == ParseDiff \/ FilterParsed

SpecParse == InitParse /\ [][NextParse]_vars

(***************************************************************************)
(* The whitespace filter on its own: _filter_whitespace_hunks on lists of  *)
(* up to two hunks, applied once and then again to its own result          *)
(***************************************************************************)
MaxFilterLen == 4

FilterLineInputs ==
  { <<>>,
    <<" ", "c">>,
    <<"-", "a">>,
    <<"+", " ", "a">>,
    <<"-", "-", " ", "x">>,
    <<"+", "*", " ", "x">> }

FirstHeader == <<"@", "@", " ", "-", "1", ",", "4", " ", "+", "1", ",", "4", " ", "@", "@">>
SecondHeader == <<"@", "@", " ", "-", "9", " ", "+", "9", " ", "@", "@", " ", "f">>

\* no hunk, one hunk, or two hunks that share the lines ls, cut after line c
FilterInputs(ls, c) ==
  { <<>>,
    <<Hunk(FirstHeader, ls)>>,
    <<Hunk(FirstHeader, SubSeq(ls, 1, c)), Hunk(SecondHeader, SubSeq(ls, c + 1, Len(ls)))>> }

InitFilter ==
  /\ viewer = NoViewer
  /\ head = [g \in Files |-> File(Base)]
  /\ index = head
  /\ worktree = head
  /\ tmp_files = 0
  /\ branch = "main"
  /\ \E n \in 0..MaxFilterLen :
       \E ls \in [1..n -> FilterLineInputs], c \in 0..n :
         \E hunks \in FilterInputs(ls, c) : last = [op |-> "input", hunks |-> hunks]

FilterHunks ==
  /\ last.op = "input"
  /\ last' = [op |-> "filtered", hunks |-> last.hunks,
               filtered |-> _filter_whitespace_hunks(last.hunks)]
  /\ UNCHANGED <<head, index, worktree, tmp_files, branch, viewer>>

FilterAgain ==
  /\ last.op = "filtered"
  /\ last' = [op |-> "refiltered", hunks |-> last.hunks, filtered |-> last.filtered,
               refiltered |-> _filter_whitespace_hunks(last.filtered)]
  /\ UNCHANGED <<head, index, worktree, tmp_files, branch, viewer>>

NextFilter == FilterHunks \/ FilterAgain

SpecFilter == InitFilter /\ [][NextFilter]_vars

(***************************************************************************)
(* Properties of the patch synthesizer (SpecPatch)                         *)
(***************************************************************************)
\* '@@ -a,b +c,d @@' with both counts written out
ExplicitHeader(a, b, c, d) ==
  <<"@", "@", " ", "-">> \o str(a) \o <<",">> \o str(b) \o <<" ", "+">> \o str(c)
    \o <<",">> \o str(d) \o <<" ", "@", "@">>

HasFullForm(header) ==
  LET h == GitParseHeader(header)
  IN  h.ok /\ header = ExplicitHeader(h.a, h.b, h.c, h.d)

RECURSIVE SumLen(_)
SumLen(lines) == IF Len(lines) = 0 THEN 0 ELSE Len(Head(lines)) + 1 + SumLen(Tail(lines))

\* C1: for a header of the form '@@ -a,b +c,d @@' the reverse patch starts
\* with the renumbered header '@@ -c,d +a,b @@'.
C1_ReverseHeaderSwapped ==
  (last.op = "create_patch" /\ last.reverse /\ HasFullForm(last.hunk.header)) =>
    /\ last.result = "returned"
    /\ LET h == GitParseHeader(last.hunk.header)
       IN  splitlines(last.patch)[1] = ExplicitHeader(h.c, h.d, h.a, h.b)

\* C9: in a reverse patch a body line starting with '+' starts with '-'
\* instead, one starting with '-' starts with '+' instead, the rest of the
\* line and every other line are unchanged, and there are as many body lines,
\* in the same order.
C9_ReverseBodyByFirstChar ==
  (last.op = "create_patch" /\ last.reverse /\ last.result = "returned") =>
    LET out  == splitlines(last.patch)
        body == last.hunk.lines
    IN  /\ Len(out) = Len(body) + 1
        /\ \A k \in 1..Len(body) :
             LET l == body[k]
                 o == out[k + 1]
             IN  IF Len(l) > 0 /\ l[1] \in {"+", "-"}
                 THEN /\ Len(o) = Len(l)
                      /\ o[1] = (IF l[1] = "+" THEN "-" ELSE "+")
                      /\ \A j \in 2..Len(l) : o[j] = l[j]
                 ELSE o = l

C9_Witness ==
  /\ last.op = "create_patch" /\ last.reverse /\ last.result = "returned"
  /\ \E k \in 1..Len(last.hunk.lines) : last.hunk.lines[k] = <<"+", "-", "x">>
  /\ \E k \in 1..Len(last.hunk.lines) : last.hunk.lines[k] = <<"x", "+">>

\* C10: the forward patch is the header and the body lines, unmodified and in
\* order, each followed by exactly one newline.
C10_ForwardPatchText ==
  (last.op = "create_patch" /\ ~last.reverse) =>
    /\ last.result = "returned"
    /\ splitlines(last.patch) = <<last.hunk.header>> \o last.hunk.lines
    /\ Len(last.patch) = Len(last.hunk.header) + 1 + SumLen(last.hunk.lines)
    /\ last.patch[Len(last.patch)] = NL

C10_Witness ==
  /\ last.op = "create_patch" /\ ~last.reverse
  /\ Len(last.hunk.lines) >= 2
  /\ last.hunk.lines[Len(last.hunk.lines)] = <<>>
  /\ HasFullForm(last.hunk.header)

(***************************************************************************)
(* Properties of the hunk operations (Spec)                                *)
(***************************************************************************)
HunkOps == {"stage_hunk", "unstage_hunk", "discard_hunk"}

\* the content old with the region of hunk h taken from new, and the reverse
WithHunk(old, new, h) ==
  SubSeq(old, 1, h.a - 1) \o SubSeq(new, h.c, h.c + h.d - 1)
    \o SubSeq(old, h.a + h.b, Len(old))

WithoutHunk(old, new, h) ==
  SubSeq(new, 1, h.c - 1) \o SubSeq(old, h.a, h.a + h.b - 1)
    \o SubSeq(new, h.c + h.d, Len(new))

\* the hunk a call took is the one at hunk_index of list hunks
TookHunkOf(call, hunks) ==
  call.has_hunk =>
    /\ PyIndex(Len(hunks), call.hunk_index) # 0
    /\ call.hunk = hunks[PyIndex(Len(hunks), call.hunk_index)]

\* C3: unstage_hunk leaves the working tree of every file as it was.
C3_UnstageKeepsWorktree ==
  [][last'.op = "unstage_hunk" => worktree' = worktree]_vars

\* C4: the hunk a patch is built from is the hunk parser's output for the
\* path's diff, not the whitespace-filtered hunk.
C4_PatchFromUnfilteredHunk ==
  [][(/\ last'.op \in HunkOps
      /\ last'.has_hunk
      /\ Len(GitDiffPath(last'.file_path, last'.op = "unstage_hunk")) > 0)
     => \A parsed \in {_parse_diff_into_hunks(
                           GitDiffPath(last'.file_path, last'.op = "unstage_hunk"))} :
          TookHunkOf(last', parsed)]_vars

C7_NoTempFileLeft == last.op \in HunkOps => tmp_files = 0

\* C8: when git rejects the patch the operation returns False (it does not
\* raise), and it returns True only when git applied the patch.
C8_ApplyFailureReturnsFalse ==
  last.op \in HunkOps =>
    /\ last.apply = "failed" => last.result = "False"
    /\ last.result = "True" => last.apply = "ok"

C8_Witness ==
  /\ last.op \in HunkOps /\ last.apply = "failed" /\ last.result = "False"
  /\ index[last.file_path] # worktree[last.file_path]

(***************************************************************************)
(* Properties of the round trip (SpecRoundTrip)                            *)
(***************************************************************************)
\* C2: when the forward patch of a hunk applies to a content C, the reverse
\* patch of the hunk applies to the result and gives back C.
C2_RoundTrip ==
  last.op = "reverse" => (last.result = "True" /\ worktree[PyPath] = index[PyPath])

(***************************************************************************)
(* Properties of the hunk parser (SpecParse)                               *)
(***************************************************************************)
IsHeaderLine(line) == startswith(line, <<"@", "@">>)

\* the positions of the lines beginning with '@@'
HeaderPositions(lines) == {p \in 1..Len(lines) : IsHeaderLine(lines[p])}

\* the i-th smallest element of a set of positions
NthPosition(S, i) == CHOOSE p \in S : Cardinality({q \in S : q <= p}) = i

\* the last line before the next header after position p, or the last line
BodyEnd(lines, p) ==
  IF \E q \in HeaderPositions(lines) : q > p
  THEN (CHOOSE q \in HeaderPositions(lines) :
          q > p /\ \A r \in HeaderPositions(lines) : r > p => q <= r) - 1
  ELSE Len(lines)

\* C11: when the text has lines beginning with '@@', there are as many hunks
\* as such lines; the i-th hunk has the i-th such line as its header and the
\* lines up to the next such line (or the end of the text) as its body.
C11_HunkPerHeaderLine ==
  (last.op = "parsed" /\ HeaderPositions(splitlines(last.diff)) # {}) =>
    LET lines == splitlines(last.diff)
        S     == HeaderPositions(lines)
    IN  /\ Len(last.hunks) = Cardinality(S)
        /\ \A i \in 1..Len(last.hunks) :
             LET p == NthPosition(S, i)
             IN  /\ last.hunks[i].header = lines[p]
                 /\ last.hunks[i].lines = SubSeq(lines, p + 1, BodyEnd(lines, p))

\* C12: a non-empty text without a line beginning with '@@' gives exactly one
\* hunk, with the empty header and all lines of the text in their order.
C12_UnheaderedWholeInput ==
  (/\ last.op = "parsed"
   /\ Len(last.diff) > 0
   /\ HeaderPositions(splitlines(last.diff)) = {}) =>
    /\ Len(last.hunks) = 1
    /\ last.hunks[1].header = <<>>
    /\ last.hunks[1].lines = splitlines(last.diff)
    /\ join(last.hunks[1].lines) \in {last.diff, SubSeq(last.diff, 1, Len(last.diff) - 1)}

C12_Witness ==
  /\ last.op = "parsed"
  /\ HeaderPositions(splitlines(last.diff)) = {}
  /\ Len(last.hunks) = 1
  /\ Len(last.hunks[1].lines) = MaxDiffLines
  /\ last.hunks[1].lines[1] = <<"x", "@", "@">>
  /\ last.hunks[1].lines[2] = <<>>

\* C13: the empty text parses to the empty list, and the empty list of hunks
\* filters to the empty list.
C13_EmptyInputEmptyResult ==
  /\ (last.op \in {"parsed", "filtered"} /\ last.diff = <<>>) => last.hunks = <<>>
  /\ (last.op = "filtered" /\ last.hunks = <<>>) => last.filtered = <<>>

C13_Witness ==
  /\ last.op = "filtered"
  /\ last.diff = <<>>
  /\ last.filtered = <<>>

\* C14: a returned hunk has the empty header only when the text has no line
\* beginning with '@@', and it is then the only hunk and holds the whole
\* text; every other hunk has a non-empty header.
C14_EmptyHeaderOnlyWithoutHeaderLine ==
  last.op = "parsed" =>
    \A i \in 1..Len(last.hunks) :
      last.hunks[i].header = <<>> =>
        /\ HeaderPositions(splitlines(last.diff)) = {}
        /\ last.hunks = <<Hunk(<<>>, splitlines(last.diff))>>

(***************************************************************************)
(* Properties of the whitespace filter (SpecFilter)                        *)
(***************************************************************************)
\* the lines at the positions K, in their order
Restrict(lines, K) == [i \in 1..Cardinality(K) |-> lines[NthPosition(K, i)]]

\* position k holds a '-' line and position k + 1 a '+' line
IsPairAt(lines, k) ==
  /\ k >= 1 /\ k + 1 <= Len(lines)
  /\ FirstIs(lines[k], "-") /\ FirstIs(lines[k + 1], "+")

\* the contents (the lines without their prefix character) are equal once
\* surrounding whitespace is stripped
StrippedEqual(l1, l2) == strip(Tail(l1)) = strip(Tail(l2))

\* the stripped content c is a bullet line with the text t after its marker
IsBulletWith(c, t) == \E b \in 1..Len(bullet_types) : c = bullet_types[b] \o t

\* both contents are bullet lines with the same text after the bullet
BulletsWithSameText(l1, l2) ==
  \E n \in 0..Len(strip(Tail(l1))) :
    LET t == SubSeq(strip(Tail(l1)), Len(strip(Tail(l1))) - n + 1, Len(strip(Tail(l1))))
    IN  IsBulletWith(strip(Tail(l1)), t) /\ IsBulletWith(strip(Tail(l2)), t)

\* both contents are bullet lines with the same marker and the same text
SameBulletWithSameText(l1, l2) ==
  \E b \in 1..Len(bullet_types) :
    /\ startswith(strip(Tail(l1)), bullet_types[b])
    /\ startswith(strip(Tail(l2)), bullet_types[b])
    /\ SubSeq(strip(Tail(l1)), 3, Len(strip(Tail(l1))))
         = SubSeq(strip(Tail(l2)), 3, Len(strip(Tail(l2))))

\* the positions left when the pairs starting at the positions D are dropped
KeptPositions(lines, D) == {k \in 1..Len(lines) : k \notin D /\ (k - 1) \notin D}

\* C15 as stated: a ('-', '+') pair is dropped exactly when the contents are
\* equal after stripping or both are bullet lines (any of the markers) with
\* the same text after the bullet; every other line is kept.
C15_PairDroppedStrippedOrBullets ==
  last.op = "filtered" =>
    \A h \in 1..Len(last.hunks) :
      LET lines == last.hunks[h].lines
          D == {k \in 1..Len(lines) :
                  /\ IsPairAt(lines, k)
                  /\ \/ StrippedEqual(lines[k], lines[k + 1])
                     \/ BulletsWithSameText(lines[k], lines[k + 1])}
      IN  last.filtered[h].lines = Restrict(lines, KeptPositions(lines, D))

\* C15 amended: ... or both are bullet lines with the same marker and the
\* same text after the bullet.
C15_PairDroppedStrippedOrSameBullet ==
  last.op = "filtered" =>
    \A h \in 1..Len(last.hunks) :
      LET lines == last.hunks[h].lines
          D == {k \in 1..Len(lines) :
                  /\ IsPairAt(lines, k)
                  /\ \/ StrippedEqual(lines[k], lines[k + 1])
                     \/ SameBulletWithSameText(lines[k], lines[k + 1])}
      IN  last.filtered[h].lines = Restrict(lines, KeptPositions(lines, D))

C15_Witness ==
  /\ last.op = "filtered"
  /\ Len(last.hunks) = 1
  /\ last.hunks[1].lines = << <<"-", "a">>, <<"+", " ", "a">>, <<"-", "a">>, <<"+", "*", " ", "x">> >>
  /\ last.filtered[1].lines = << <<"-", "a">>, <<"+", "*", " ", "x">> >>

\* the positions that belong to no adjacent ('-' line, '+' line) pair
UnpairedPositions(lines) ==
  {k \in 1..Len(lines) : ~IsPairAt(lines, k) /\ ~IsPairAt(lines, k - 1)}

\* C16: the filtered body is the body without some of its lines, in the same
\* order, and no line outside an adjacent ('-', '+') pair is among the
\* missing ones.
C16_UnpairedLinesRetained ==
  last.op = "filtered" =>
    \A h \in 1..Len(last.hunks) :
      LET lines == last.hunks[h].lines
      IN  \E K \in SUBSET (1..Len(lines)) :
            /\ UnpairedPositions(lines) \subseteq K
            /\ last.filtered[h].lines = Restrict(lines, K)

C16_Witness ==
  /\ last.op = "filtered"
  /\ Len(last.hunks) = 1
  /\ last.hunks[1].lines = << <<"+", " ", "a">>, <<"-", "a">>, <<"+", " ", "a">>, <<"-", "a">> >>
  /\ last.filtered[1].lines = << <<"+", " ", "a">>, <<"-", "a">> >>

\* C17: filtering the filtered hunks again gives the same hunks.
C17_FilterIdempotent ==
  last.op = "refiltered" => last.refiltered = last.filtered

\* the '-' or '+' line at position k is in a whitespace-only adjacent pair
InWhitespacePair(lines, k) ==
  \/ IsPairAt(lines, k) /\ StrippedEqual(lines[k], lines[k + 1])
  \/ IsPairAt(lines, k - 1) /\ StrippedEqual(lines[k - 1], lines[k])

ChangePositions(lines) ==
  {k \in 1..Len(lines) : FirstIs(lines[k], "-") \/ FirstIs(lines[k], "+")}

\* C18: a hunk whose '-' and '+' lines all are in whitespace-only pairs is
\* not in the returned list; a hunk with a meaningful change is.
C18_WhitespaceOnlyHunksRemoved ==
  last.op = "filtered" =>
    \A h \in 1..Len(last.hunks) :
      LET lines    == last.hunks[h].lines
          returned == \E j \in 1..Len(last.filtered) :
                        last.filtered[j].header = last.hunks[h].header
      IN  /\ (/\ ChangePositions(lines) # {}
              /\ \A k \in ChangePositions(lines) : InWhitespacePair(lines, k))
               => ~returned
          /\ (\E k \in ChangePositions(lines) : ~InWhitespacePair(lines, k))
               => returned

\* C19: the returned hunks are, in order, hunks of the input: each has the
\* header of the input hunk it comes from, and lines of that hunk's body.
C19_HeadersAndOrderKept ==
  last.op \in {"filtered", "refiltered"} =>
    \E K \in SUBSET (1..Len(last.hunks)) :
      /\ Len(last.filtered) = Cardinality(K)
      /\ \A j \in 1..Len(last.filtered) :
           LET from == last.hunks[NthPosition(K, j)]
           IN  /\ last.filtered[j].header = from.header
               /\ \E L \in SUBSET (1..Len(from.lines)) :
                    last.filtered[j].lines = Restrict(from.lines, L)

C19_Witness ==
  /\ last.op = "filtered"
  /\ Len(last.filtered) = 2
  /\ last.hunks[1].lines = << <<"-", "a">>, <<"+", " ", "a">> >>
  /\ last.filtered[1] = Hunk(FirstHeader, <<>>)
  /\ last.hunks[2].lines = << <<"-", "a">>, <<"+", "*", " ", "x">> >>
  /\ last.filtered[2] = Hunk(SecondHeader, last.hunks[2].lines)

(***************************************************************************)
(* Properties of the branch switch (Spec)                                  *)
(***************************************************************************)
SwitchOps == {"switch_branch", "option_selected"}

\* C20: when is_dirty answers True, switch_branch returns False, no checkout
\* runs, and the branch and the repository stay as they are.
C20_DirtyBlocksSwitch ==
  [][(last'.op \in SwitchOps /\ last'.dirty) =>
         /\ last'.result # "True"
         /\ last'.checkout = "none"
         /\ branch' = branch
         /\ <<head', index', worktree'>> = <<head, index, worktree>>
     ]_vars

C20_Witness ==
  /\ last.op = "switch_branch"
  /\ last.dirty
  /\ last.result = "False"
  /\ last.branch_name = "dev"
  /\ branch = "main"
  /\ get_staged_files # {}

(***************************************************************************)
(* Hunk indexes outside the hunk list (Spec)                               *)
(***************************************************************************)
\* the hunk list a hunk operation reads before it acts
HunksReadBy(op, file_path) == get_diff_hunks(file_path, op = "unstage_hunk")

\* C26: a hunk operation called with a hunk_index below 0, or at least the
\* number of hunks of the file, returns False without calling git apply,
\* raises nothing and leaves index and working tree as they were.
C26_InvalidIndexRejected ==
  [][(/\ last'.op \in HunkOps
      /\ \/ last'.hunk_index < 0
         \/ last'.hunk_index >= Len(HunksReadBy(last'.op, last'.file_path)))
     => (/\ last'.result = "False"
         /\ last'.apply = "none"
         /\ index' = index
         /\ worktree' = worktree)]_vars

(***************************************************************************)
(* The two status classifiers (Spec)                                       *)
(***************************************************************************)
\* C27: for every path, get_file_status gives the status that
\* get_file_statuses holds for it, "unchanged" when it holds none.
C27_StatusClassifiersAgree ==
  \A p \in Files :
    get_file_status(p) = DictGet(get_file_statuses, p, "unchanged")

(***************************************************************************)
(* Properties of the button identifiers (SpecButton)                       *)
(***************************************************************************)
OperationOf(prefix) ==
  IF prefix = StagePrefix THEN "stage_hunk"
  ELSE IF prefix = UnstagePrefix THEN "unstage_hunk"
  ELSE "discard_hunk"

\* C25: pressing the button display_file_diff made for hunk i of path p
\* calls the button's hunk operation with path p and hunk index i.
C25_ButtonRoundTrip ==
  last.op = "pressed" =>
    last.call = [op |-> OperationOf(last.prefix), file_path |-> last.file_path,
                 hunk_index |-> last.hunk_index]

(***************************************************************************)
(* Properties of the diff panel (SpecViewer)                               *)
(***************************************************************************)
\* C24: after a Stage action that succeeded on the displayed file, the panel
\* shows the unstaged view exactly when the file still differs from the
\* index, and the staged view only when no unstaged change is left.
C24_StageKeepsUnstagedView ==
  [][(/\ last'.op = "stage_hunk"
      /\ last'.result = "True"
      /\ viewer.current_file = last'.file_path)
     => (viewer'._current_displayed_is_staged = Some(FALSE)
           <=> worktree'[last'.file_path] # index'[last'.file_path])]_vars

\* C29: once a file has been displayed, the selected file is the displayed
\* file and the selected view is the displayed view.
C29_ViewStateAgrees ==
  viewer._current_displayed_file # None =>
    /\ viewer.current_file = viewer._current_displayed_file
    /\ viewer.current_is_staged = viewer._current_displayed_is_staged

\* a tree event for the pair already shown, after a hunk action changed the view
C29_Witness ==
  /\ last.op = "node" /\ last.skipped
  /\ viewer._current_displayed_file = MdPath
  /\ viewer._current_displayed_is_staged = Some(TRUE)
  /\ viewer.current_file = MdPath
  /\ index[MdPath] # head[MdPath]

(***************************************************************************)
(* Properties of hunk-by-hunk staging (SpecStageAll)                       *)
(***************************************************************************)
\* the stores after a step
RepoAfter == [head |-> head', index |-> index', worktree |-> worktree']

\* the unstaged hunks of a tracked path in the stores r
UnstagedHunksIn(r, file_path) ==
  IF Len(GitDiffIn(r, file_path, FALSE)) = 0 THEN <<>>
  ELSE DiffHunksIn(r, file_path, FALSE)

\* C28: each call of stage_hunk(file, 0) on a tracked file with unstaged
\* hunks succeeds and leaves one unstaged hunk fewer, so that k calls stage a
\* file of k hunks; when no hunk is left the index holds the working-tree
\* content.
C28_StagingConverges ==
  [][last'.op = "stage_hunk" =>
       /\ last'.result = "True"
       /\ Len(UnstagedHunksIn(RepoAfter, last'.file_path))
            = Len(UnstagedHunksIn(Repo, last'.file_path)) - 1
       /\ (Len(UnstagedHunksIn(RepoAfter, last'.file_path)) = 0
             => index'[last'.file_path] = worktree'[last'.file_path])]_vars

(***************************************************************************)
(* Properties of action_commit (SpecCommit)                                *)
(***************************************************************************)
\* C30: action_commit calls commit_staged_changes only with a message that
\* is not empty once trimmed and with a staged file; without the call HEAD
\* and the commit input keep their values; the input changes only after a
\* commit that answered True, and is empty then.
C30_CommitOnlyWithMessageAndStaged ==
  [][last'.op = "action_commit" =>
       /\ (last'.commit # "none" =>
             (Len(strip(viewer.commit_message)) > 0 /\ get_staged_files # {}))
       /\ (last'.commit = "none" =>
             (head' = head /\ viewer'.commit_message = viewer.commit_message))
       /\ (viewer'.commit_message # viewer.commit_message =>
             (last'.commit = "True" /\ viewer'.commit_message = <<>>))]_vars

\* a commit of a staged file under the message " m " that cleared the input
C30_Witness ==
  /\ last.op = "action_commit"
  /\ last.commit = "True"
  /\ last.value = <<" ", "m", " ">>
  /\ viewer.commit_message = <<>>
  /\ \E f \in Files : head[f].present /\ head[f] = index[f] /\ head[f] # File(Base)


====
